---- MODULE Spec2Model ----
(***************************************************************************)
(* A model of src/frontend.py: the Streamlit front end of a Bedrock agent. *)
(* One script run (main) initialises the session state, shows the chat     *)
(* history and, when the chat input returned a prompt, appends it to the   *)
(* transcript, invokes the agent and consumes the event stream the agent   *)
(* returns: trace events are rendered as expanders, answer chunks are      *)
(* decoded, written and appended to the transcript.                        *)
(*                                                                         *)
(* Python values.  A str is the sequence of its code points and a bytes    *)
(* object the sequence of its bytes (0..255).  A dict with literal keys    *)
(* (a raw event, st.session_state, a transcript entry) is a function on    *)
(* the keys present, so that `"chunk" in event` is a test on its DOMAIN.   *)
(* The calls to print (lines 83-88, 147, 179) write to the terminal only   *)
(* and are left out.                                                       *)
(***************************************************************************)
EXTENDS Integers, Sequences, FiniteSets, TLC

VARIABLES
    session_state,  \* st.session_state: the keys set so far and their values
    pc,             \* where the current script run of main is
    prompt,         \* main's local `prompt` in the current script run
    screen,         \* the elements the current script run has put on the page
    outcome,        \* how the last script run ended: what its try block raised and
                    \* what main raised to Streamlit
    gateway,        \* the calls made to client.invoke_agent, in order
    events,         \* the events the current stream has yielded, in order
    runs,           \* the script runs started so far
    pulled,         \* the events the streams of the session have yielded so far
    event,          \* the raw event handed to handle_trace_event on its own
    result          \* what handle_trace_event did with `event`

vars == <<session_state, pc, prompt, screen, outcome, gateway, events, runs, pulled, event, result>>

----------------------------------------------------------------------------
(* The string literals of the source, as code points. *)

\* frontend.py:33
S_title == <<12431, 12364, 23478, 12398, 65, 73, 25216, 34899, 39015, 21839>>
\* frontend.py:34
S_intro ==
    <<30011, 38754, 19979, 37096, 12398, 12481, 12515, 12483, 12488, 12508, 12483, 12463, 12473,
     12363, 12425, 20309, 12391, 12418, 36074, 21839, 12375, 12390, 12397, 65281>>
\* frontend.py:48
S_kb_result_title ==
    <<128269, 32, 12490, 12524, 12483, 12472, 12505, 12540, 12473, 12363, 12425, 26908, 32034,
     32080, 26524, 12434, 21462, 24471, 12375, 12414, 12375, 12383>>
\* frontend.py:55
S_kb_no_docs ==
    <<38306, 36899, 12377, 12427, 12489, 12461, 12517, 12513, 12531, 12488, 12399, 35211, 12388,
     12363, 12426, 12414, 12379, 12435, 12391, 12375, 12383, 12290>>
\* frontend.py:59
S_unknown_agent == <<19981, 26126, 12394, 12456, 12540, 12472, 12455, 12531, 12488>>
\* frontend.py:61 and 115, the text before {agent_name}
S_sub_pre ==
    <<129302, 32, 12469, 12502, 12456, 12540, 12472, 12455, 12531, 12488, 12300>>
\* frontend.py:61, the text after {agent_name}
S_sub_result_post ==
    <<12301, 12363, 12425, 22238, 31572, 12434, 21462, 24471, 12375, 12414, 12375, 12383>>
\* frontend.py:67
S_sub_no_text ==
    <<12469, 12502, 12456, 12540, 12472, 12455, 12531, 12488, 12363, 12425, 12398, 12486, 12461,
     12473, 12488, 20986, 21147, 12399, 12354, 12426, 12414, 12379, 12435, 12391, 12375, 12383,
     12290>>
\* frontend.py:78
S_thinking == <<129300, 32, 24605, 32771, 20013, 8230>>
\* frontend.py:94
S_thought_done ==
    <<128161, 32, 24605, 32771, 12364, 12414, 12392, 12414, 12426, 12414, 12375, 12383>>
\* frontend.py:106
S_action_decided ==
    <<9989, 32, 27425, 12398, 12450, 12463, 12471, 12519, 12531, 12434, 27770, 23450, 12375, 12414,
     12375, 12383>>
\* frontend.py:115, the text after {agent_name}
S_sub_invoke_post == <<12301, 12434, 21628, 12403, 20986, 12375, 20013, 8230>>
\* frontend.py:119
S_kb_search_title ==
    <<128214, 32, 12490, 12524, 12483, 12472, 12505, 12540, 12473, 12434, 26908, 32034, 20013,
     8230>>
\* frontend.py:123
S_lambda_title ==
    <<128187, 32, 76, 97, 109, 98, 100, 97, 12434, 23455, 34892, 20013, 8230>>
\* frontend.py:159
S_err_dependency ==
    <<12304, 12456, 12521, 12540, 12305, 12490, 12524, 12483, 12472, 12505, 12540, 12473, 12398, 65,
     117, 114, 111, 114, 97, 32, 68, 66, 12364, 12473, 12522, 12540, 12503, 12375, 12390, 12356,
     12383, 12424, 12358, 12391, 12377, 12290, 25968, 31186, 12362, 12356, 12390, 12363, 12425,
     12289, 12502, 12521, 12454, 12470, 12434, 12522, 12525, 12540, 12489, 12375, 12390, 20877,
     24230, 12362, 35430, 12375, 12367, 12384, 12373, 12356, 128591>>
\* frontend.py:161
S_err_throttling ==
    <<12304, 12456, 12521, 12540, 12305, 66, 101, 100, 114, 111, 99, 107, 12398, 12514, 12487,
     12523, 36000, 33655, 12364, 39640, 12356, 12424, 12358, 12391, 12377, 12290, 49, 20998,
     24453, 12387, 12390, 12363, 12425, 12289, 12502, 12521, 12454, 12470, 12434, 12522, 12525,
     12540, 12489, 12375, 12390, 20877, 24230, 12362, 35430, 12375, 12367, 12384, 12373, 12356,
     128591, 65288, 25913, 21892, 12375, 12394, 12356, 22580, 21512, 12399, 12289, 12514, 12487,
     12523, 12434, 22793, 26356, 12377, 12427, 12363, 91, 12469, 12540, 12499, 12473, 12463,
     12457, 12540, 12479, 12398, 24341, 12365, 19978, 12370, 30003, 35531, 93, 40, 104, 116,
     116, 112, 115, 58, 47, 47, 97, 119, 115, 46, 97, 109, 97, 122, 111, 110, 46, 99, 111, 109,
     47, 106, 112, 47, 98, 108, 111, 103, 115, 47, 110, 101, 119, 115, 47, 103, 101, 110, 101,
     114, 97, 116, 105, 118, 101, 45, 97, 105, 45, 97, 109, 97, 122, 111, 110, 45, 98, 101, 100,
     114, 111, 99, 107, 45, 104, 97, 110, 100, 108, 105, 110, 103, 45, 113, 117, 111, 116, 97,
     45, 112, 114, 111, 98, 108, 101, 109, 115, 47, 41, 12434, 23455, 26045, 12367, 12384,
     12373, 12356, 65289>>
\* the literal "dependencyFailedException" (frontend.py:158, 185, 186)
S_dependencyFailedException ==
    <<100, 101, 112, 101, 110, 100, 101, 110, 99, 121, 70, 97, 105, 108, 101, 100, 69, 120, 99, 101,
     112, 116, 105, 111, 110>>
\* the literal "throttlingException" (frontend.py:160, 187, 188)
S_throttlingException ==
    <<116, 104, 114, 111, 116, 116, 108, 105, 110, 103, 69, 120, 99, 101, 112, 116, 105, 111, 110>>
\* the key "content" (frontend.py:96, 100)
K_content == <<99, 111, 110, 116, 101, 110, 116>>
\* the key "text" (frontend.py:96)
K_text == <<116, 101, 120, 116>>

----------------------------------------------------------------------------
(* Python's built-in operations used by the source. *)

None == [k |-> "None"]

EmptyDict == [x \in {} |-> None]

Str(s) == [k |-> "str", v |-> s]

\* `sub in s` for two str: s has a slice equal to sub
Contains(sub, s) ==
    \E i \in 1..(Len(s) + 1) : i + Len(sub) - 1 <= Len(s) /\ SubSeq(s, i, i + Len(sub) - 1) = sub

\* the codec's reading of the character that starts at b[i]: the number of
\* bytes it takes (0 when the bytes are not UTF-8 there) and its code point
Utf8Char(b, i) ==
    LET n == Len(b) - i + 1
        b1 == b[i]
        b2 == IF n >= 2 THEN b[i + 1] ELSE 0
        b3 == IF n >= 3 THEN b[i + 2] ELSE 0
        b4 == IF n >= 4 THEN b[i + 3] ELSE 0
        cont(x) == x >= 128 /\ x <= 191
        bad == [n |-> 0, cp |-> 0]
    IN  IF b1 < 128 THEN [n |-> 1, cp |-> b1]
        ELSE IF b1 >= 194 /\ b1 <= 223
        THEN IF cont(b2) THEN [n |-> 2, cp |-> (b1 - 192) * 64 + (b2 - 128)] ELSE bad
        ELSE IF b1 >= 224 /\ b1 <= 239
        THEN IF /\ cont(b2) /\ cont(b3)
                /\ (b1 = 224 => b2 >= 160)
                /\ (b1 = 237 => b2 <= 159)
             THEN [n |-> 3, cp |-> (b1 - 224) * 4096 + (b2 - 128) * 64 + (b3 - 128)]
             ELSE bad
        ELSE IF b1 >= 240 /\ b1 <= 244
        THEN IF /\ cont(b2) /\ cont(b3) /\ cont(b4)
                /\ (b1 = 240 => b2 >= 144)
                /\ (b1 = 244 => b2 <= 143)
             THEN [n |-> 4,
                   cp |-> (b1 - 240) * 262144 + (b2 - 128) * 4096 + (b3 - 128) * 64 + (b4 - 128)]
             ELSE bad
        ELSE bad

RECURSIVE DecodeFrom(_, _)
DecodeFrom(b, i) ==
    IF i > Len(b) THEN [ok |-> TRUE, text |-> <<>>]
    ELSE LET c == Utf8Char(b, i)
         IN  IF c.n = 0 THEN [ok |-> FALSE, text |-> <<>>]
             ELSE LET r == DecodeFrom(b, i + c.n)
                  IN  IF r.ok THEN [ok |-> TRUE, text |-> <<c.cp>> \o r.text] ELSE r

\* bytes.decode(): UTF-8, errors="strict".  ok is FALSE where Python raises
\* UnicodeDecodeError
decode(b) == DecodeFrom(b, 1)

(* json.loads, for the JSON made of objects, arrays and strings without     *)
(* escapes; any other text (a number, a bare word, a truncated document,    *)
(* trailing data) is refused, which is what json.loads does with the texts  *)
(* the model draws.  A parsed value is tagged with its Python type.         *)
JsonFail == [ok |-> FALSE, val |-> None, next |-> 0]

RECURSIVE SkipWs(_, _)
SkipWs(s, i) ==
    IF i <= Len(s) /\ s[i] \in {32, 9, 10, 13} THEN SkipWs(s, i + 1) ELSE i

\* the index of the quote that closes a string whose first character is at i,
\* 0 when there is none (or a control character or an escape comes first)
RECURSIVE StringEnd(_, _)
StringEnd(s, i) ==
    IF i > Len(s) \/ s[i] < 32 \/ s[i] = 92 THEN 0
    ELSE IF s[i] = 34 THEN i
    ELSE StringEnd(s, i + 1)

RECURSIVE JsonValue(_, _), JsonMembers(_, _, _), JsonElements(_, _, _)
JsonValue(s, i) ==
    IF i > Len(s) THEN JsonFail
    ELSE IF s[i] = 34
    THEN LET e == StringEnd(s, i + 1)
         IN  IF e = 0 THEN JsonFail
             ELSE [ok |-> TRUE, val |-> Str(SubSeq(s, i + 1, e - 1)), next |-> e + 1]
    ELSE IF s[i] = 123
    THEN LET j == SkipWs(s, i + 1)
         IN  IF j <= Len(s) /\ s[j] = 125
             THEN [ok |-> TRUE, val |-> [k |-> "dict", v |-> EmptyDict], next |-> j + 1]
             ELSE JsonMembers(s, j, EmptyDict)
    ELSE IF s[i] = 91
    THEN LET j == SkipWs(s, i + 1)
         IN  IF j <= Len(s) /\ s[j] = 93
             THEN [ok |-> TRUE, val |-> [k |-> "list", v |-> <<>>], next |-> j + 1]
             ELSE JsonElements(s, j, <<>>)
    ELSE JsonFail

JsonMembers(s, i, acc) ==
    IF i > Len(s) \/ s[i] # 34 THEN JsonFail
    ELSE LET key == JsonValue(s, i)
             c == SkipWs(s, key.next)
         IN  IF ~key.ok \/ c > Len(s) \/ s[c] # 58 THEN JsonFail
             ELSE LET val == JsonValue(s, SkipWs(s, c + 1))
                      d == SkipWs(s, val.next)
                      more == (key.val.v :> val.val) @@ acc
                  IN  IF ~val.ok \/ d > Len(s) THEN JsonFail
                      ELSE IF s[d] = 44 THEN JsonMembers(s, SkipWs(s, d + 1), more)
                      ELSE IF s[d] = 125
                      THEN [ok |-> TRUE, val |-> [k |-> "dict", v |-> more], next |-> d + 1]
                      ELSE JsonFail

JsonElements(s, i, acc) ==
    LET val == JsonValue(s, i)
        d == SkipWs(s, val.next)
        more == Append(acc, val.val)
    IN  IF ~val.ok \/ d > Len(s) THEN JsonFail
        ELSE IF s[d] = 44 THEN JsonElements(s, SkipWs(s, d + 1), more)
        ELSE IF s[d] = 93
        THEN [ok |-> TRUE, val |-> [k |-> "list", v |-> more], next |-> d + 1]
        ELSE JsonFail

\* json.loads(s): ok is FALSE where Python raises json.JSONDecodeError
json_loads(s) ==
    LET r == JsonValue(s, SkipWs(s, 1))
    IN  IF r.ok /\ SkipWs(s, r.next) > Len(s) THEN [ok |-> TRUE, val |-> r.val]
        ELSE [ok |-> FALSE, val |-> None]

\* bool(x): None and an empty str, list or dict are falsy
Truthy(x) ==
    IF x.k = "None" THEN FALSE
    ELSE IF x.k = "dict" THEN DOMAIN x.v # {}
    ELSE Len(x.v) > 0

\* the Python object a parsed value is: a str is its text
PyValue(x) == IF x.k = "str" THEN x.v ELSE x

\* d.get(key, default)
Get(d, key, default) == IF key \in DOMAIN d THEN d[key] ELSE default

\* d[path[1]][path[2]]...: ok is FALSE where Python raises KeyError(key)
RECURSIVE Subscript(_, _)
Subscript(d, path) ==
    IF path = <<>> THEN [ok |-> TRUE, val |-> d, key |-> ""]
    ELSE IF Head(path) \in DOMAIN d THEN Subscript(d[Head(path)], Tail(path))
    ELSE [ok |-> FALSE, val |-> None, key |-> Head(path)]

NoExc == [cls |-> "None"]

KeyError(key) == [cls |-> "KeyError", key |-> key]

UnicodeDecodeError == [cls |-> "UnicodeDecodeError"]

UnboundLocalError(name) == [cls |-> "UnboundLocalError", name |-> name]

\* botocore's two exceptions main catches, with their str(e)
ClientError(str) == [cls |-> "ClientError", str |-> str]

EventStreamError(str) == [cls |-> "EventStreamError", str |-> str]

----------------------------------------------------------------------------
(* Streamlit's page: the elements a script run has created, in order.  A    *)
(* container (st.chat_message, st.expander) holds the elements created      *)
(* inside its `with` block.                                                 *)

\* st.write, st.markdown, st.json, st.info, st.error, st.title, st.text
Element(fn, body) == [el |-> fn, body |-> body]

Expander(label, expanded, children) ==
    [el |-> "expander", label |-> label, expanded |-> expanded, children |-> children]

ChatMessage(name, children) == [el |-> "chat_message", name |-> name, children |-> children]

\* what a piece of code did: the elements it created and the exception it
\* raised (NoExc when it returned)
Returned(out) == [out |-> out, exc |-> NoExc]

Raised(out, exc) == [out |-> out, exc |-> exc]

\* `first` and then, unless it raised, `second`
Then(first, second) ==
    IF first.exc.cls # "None" THEN first
    ELSE [out |-> first.out \o second.out, exc |-> second.exc]

\* `with st.expander(label, expanded): st.<fn>(d[path])`: the expander
\* is created before the subscript is evaluated
ExpanderOf(label, expanded, fn, d, path) ==
    LET x == Subscript(d, path)
    IN  IF x.ok THEN Returned(<<Expander(label, expanded, <<Element(fn, x.val)>>)>>)
        ELSE Raised(<<Expander(label, expanded, <<>>)>>, KeyError(x.key))

----------------------------------------------------------------------------
(* frontend.py *)

display_chat_history(messages) ==
    <<Element("title", S_title), Element("text", S_intro)>>
    \o [i \in 1..Len(messages) |->
            ChatMessage(messages[i].role, <<Element("markdown", messages[i].text)>>)]

display_observation_details(observation) ==
    LET obs_type == Get(observation, "type", "")
        kb_output == Get(observation, "knowledgeBaseLookupOutput", EmptyDict)
        references == Get(kb_output, "retrievedReferences", <<>>)
        ac_output == Get(observation, "agentCollaboratorInvocationOutput", EmptyDict)
        agent_name == Get(ac_output, "agentCollaboratorName", S_unknown_agent)
        output == Get(ac_output, "output", EmptyDict)
    IN  IF obs_type = "KNOWLEDGE_BASE"
        THEN Returned(<<Expander(S_kb_result_title, FALSE,
                 IF Len(references) > 0 THEN <<Element("json", references)>>
                 ELSE <<Element("info", S_kb_no_docs)>>)>>)
        ELSE IF obs_type = "AGENT_COLLABORATOR"
        THEN Returned(<<Expander(S_sub_pre \o agent_name \o S_sub_result_post, TRUE,
                 IF "text" \in DOMAIN output /\ Len(output.text) > 0
                 THEN <<Element("markdown", output.text)>>
                 ELSE <<Element("info", S_sub_no_text)>>)>>)
        ELSE Returned(<<>>)

\* lines 77-89
trace_model_input(trace) ==
    IF "modelInvocationInput" \notin DOMAIN trace THEN Returned(<<>>)
    ELSE LET x == Subscript(trace, <<"modelInvocationInput", "text">>)
             parsed == json_loads(x.val)
         IN  IF ~x.ok THEN Raised(<<Expander(S_thinking, FALSE, <<>>)>>, KeyError(x.key))
             ELSE IF parsed.ok
             THEN Returned(<<Expander(S_thinking, FALSE, <<Element("json", PyValue(parsed.val))>>)>>)
             ELSE Returned(<<Expander(S_thinking, FALSE, <<Element("write", x.val)>>)>>)

\* a Python expression on parsed values: its value, or ok FALSE where it raises
PyRaise == [ok |-> FALSE, val |-> None]

\* x[key] for a str key: TypeError unless x is a dict, KeyError without the key
Item(x, key) ==
    IF x.ok /\ x.val.k = "dict" /\ key \in DOMAIN x.val.v
    THEN [ok |-> TRUE, val |-> x.val.v[key]]
    ELSE PyRaise

\* x[0]: KeyError on a dict, IndexError on an empty list or str
First(x) ==
    IF x.ok /\ x.val.k = "list" /\ Len(x.val.v) > 0 THEN [ok |-> TRUE, val |-> x.val.v[1]]
    ELSE IF x.ok /\ x.val.k = "str" /\ Len(x.val.v) > 0
    THEN [ok |-> TRUE, val |-> Str(<<x.val.v[1]>>)]
    ELSE PyRaise

\* json.loads(output_trace)["content"][0]
first_content(output_trace) == First(Item(json_loads(output_trace), K_content))

\* write_thinking without line 97: the text is written even when it is empty
write_thinking_unchecked(output_trace, thinking) ==
    IF ~thinking.ok THEN Element("write", output_trace)
    ELSE Element("write", PyValue(thinking.val))

\* lines 97-102, with thinking the outcome of line 96
write_thinking(output_trace, thinking) ==
    IF ~thinking.ok THEN Element("write", output_trace)
    ELSE IF Truthy(thinking.val) THEN Element("write", PyValue(thinking.val))
    ELSE Element("write", PyValue(first_content(output_trace).val))

\* lines 95-102: what the body of the expander writes
thinking_body(output_trace) ==
    write_thinking(output_trace, Item(first_content(output_trace), K_text))

\* lines 92-102
trace_model_output(trace) ==
    IF "modelInvocationOutput" \notin DOMAIN trace THEN Returned(<<>>)
    ELSE LET x == Subscript(trace, <<"modelInvocationOutput", "rawResponse", "content">>)
         IN  IF ~x.ok THEN Raised(<<>>, KeyError(x.key))
             ELSE Returned(<<Expander(S_thought_done, FALSE, <<thinking_body(x.val)>>)>>)

\* lines 105-107
trace_rationale(trace) ==
    IF "rationale" \notin DOMAIN trace THEN Returned(<<>>)
    ELSE ExpanderOf(S_action_decided, TRUE, "write", trace, <<"rationale", "text">>)

\* lines 110-124
trace_invocation_input(trace) ==
    IF "invocationInput" \notin DOMAIN trace THEN Returned(<<>>)
    ELSE LET invocation_type == Subscript(trace, <<"invocationInput", "invocationType">>)
             agent_name == Subscript(trace, <<"invocationInput",
                               "agentCollaboratorInvocationInput", "agentCollaboratorName">>)
         IN  IF ~invocation_type.ok THEN Raised(<<>>, KeyError(invocation_type.key))
             ELSE IF invocation_type.val = "AGENT_COLLABORATOR"
             THEN IF ~agent_name.ok THEN Raised(<<>>, KeyError(agent_name.key))
                  ELSE ExpanderOf(S_sub_pre \o agent_name.val \o S_sub_invoke_post, TRUE, "write",
                           trace, <<"invocationInput", "agentCollaboratorInvocationInput",
                                    "input", "text">>)
             ELSE IF invocation_type.val = "KNOWLEDGE_BASE"
             THEN ExpanderOf(S_kb_search_title, FALSE, "write",
                      trace, <<"invocationInput", "knowledgeBaseLookupInput", "text">>)
             ELSE IF invocation_type.val = "ACTION_GROUP"
             THEN ExpanderOf(S_lambda_title, FALSE, "write",
                      trace, <<"invocationInput", "actionGroupInvocationInput">>)
             ELSE Returned(<<>>)

\* lines 127-130
trace_observation(trace) ==
    IF "observation" \notin DOMAIN trace THEN Returned(<<>>)
    ELSE display_observation_details(trace.observation)

\* handle_trace_event with lines 126-130 moved before lines 109-124: the
\* observation is shown before the tool invocation
handle_trace_event_observation_first(ev) ==
    LET x == Subscript(ev, <<"trace", "trace">>)
        trace == x.val.orchestrationTrace
    IN  IF ~x.ok THEN Raised(<<>>, KeyError(x.key))
        ELSE IF "orchestrationTrace" \notin DOMAIN x.val THEN Returned(<<>>)
        ELSE Then(trace_model_input(trace),
             Then(trace_model_output(trace),
             Then(trace_rationale(trace),
             Then(trace_observation(trace),
                  trace_invocation_input(trace)))))

handle_trace_event(ev) ==
    LET x == Subscript(ev, <<"trace", "trace">>)
        trace == x.val.orchestrationTrace
    IN  IF ~x.ok THEN Raised(<<>>, KeyError(x.key))
        ELSE IF "orchestrationTrace" \notin DOMAIN x.val THEN Returned(<<>>)
        ELSE Then(trace_model_input(trace),
             Then(trace_model_output(trace),
             Then(trace_rationale(trace),
             Then(trace_invocation_input(trace),
                  trace_observation(trace)))))

\* the keyword arguments of client.invoke_agent (lines 135-141); AGENT_ID and
\* AGENT_ALIAS_ID are read from the environment
invoke_bedrock_agent(session_id, inputText) ==
    [agentId |-> "AGENT_ID", agentAliasId |-> "AGENT_ALIAS_ID",
     sessionId |-> session_id, enableTrace |-> TRUE, inputText |-> inputText]

\* handle_chunk that adds the answer to the last Assistant entry instead of
\* appending an entry
handle_chunk_coalescing(ev, messages) ==
    LET x == Subscript(ev, <<"chunk", "bytes">>)
        answer == decode(x.val)
        n == Len(messages)
    IN  IF ~x.ok THEN [out |-> <<>>, exc |-> KeyError(x.key), messages |-> messages]
        ELSE IF ~answer.ok THEN [out |-> <<>>, exc |-> UnicodeDecodeError, messages |-> messages]
        ELSE [out |-> <<Element("write", answer.text)>>, exc |-> NoExc,
              messages |-> IF n > 0 /\ messages[n].role = "assistant"
                           THEN [messages EXCEPT ![n].text = @ \o answer.text]
                           ELSE Append(messages, [role |-> "assistant", text |-> answer.text])]

\* handle_chunk that skips a chunk it cannot decode
handle_chunk_skipping(ev, messages) ==
    LET x == Subscript(ev, <<"chunk", "bytes">>)
        answer == decode(x.val)
    IN  IF ~x.ok THEN [out |-> <<>>, exc |-> KeyError(x.key), messages |-> messages]
        ELSE IF ~answer.ok THEN [out |-> <<>>, exc |-> NoExc, messages |-> messages]
        ELSE [out |-> <<Element("write", answer.text)>>, exc |-> NoExc,
              messages |-> Append(messages, [role |-> "assistant", text |-> answer.text])]

\* lines 151-154: the answer chunk of one event, and the transcript after it
handle_chunk(ev, messages) ==
    LET x == Subscript(ev, <<"chunk", "bytes">>)
        answer == decode(x.val)
    IN  IF ~x.ok THEN [out |-> <<>>, exc |-> KeyError(x.key), messages |-> messages]
        ELSE IF ~answer.ok THEN [out |-> <<>>, exc |-> UnicodeDecodeError, messages |-> messages]
        ELSE [out |-> <<Element("write", answer.text)>>, exc |-> NoExc,
              messages |-> Append(messages, [role |-> "assistant", text |-> answer.text])]

\* lines 151-154 after line 149 did `traced`
then_chunk(ev, msgs, traced) ==
    IF traced.exc.cls # "None" \/ "chunk" \notin DOMAIN ev
    THEN [out |-> traced.out, exc |-> traced.exc, messages |-> msgs]
    ELSE [out |-> traced.out \o handle_chunk(ev, msgs).out, exc |-> handle_chunk(ev, msgs).exc,
          messages |-> handle_chunk(ev, msgs).messages]

\* lines 147-154: one turn of the loop of handle_agent_response
handle_event(ev, msgs) ==
    then_chunk(ev, msgs,
               IF "trace" \in DOMAIN ev THEN handle_trace_event(ev) ELSE Returned(<<>>))

show_error_popup(exeption) ==
    IF exeption = S_dependencyFailedException THEN Returned(<<Element("error", S_err_dependency)>>)
    ELSE IF exeption = S_throttlingException THEN Returned(<<Element("error", S_err_throttling)>>)
    ELSE Raised(<<>>, UnboundLocalError("error_message"))

\* main_except with the two tests in the other order
main_except_throttling_first(e) ==
    IF e.cls \notin {"EventStreamError", "ClientError"} THEN Raised(<<>>, e)
    ELSE IF Contains(S_throttlingException, e.str)
    THEN show_error_popup(S_throttlingException)
    ELSE IF Contains(S_dependencyFailedException, e.str)
    THEN show_error_popup(S_dependencyFailedException)
    ELSE Raised(<<>>, e)

\* lines 184-190: main's except clause, for an exception e raised in its try
\* block; an exception of another class is not caught
main_except(e) ==
    IF e.cls \notin {"EventStreamError", "ClientError"} THEN Raised(<<>>, e)
    ELSE IF Contains(S_dependencyFailedException, e.str)
    THEN show_error_popup(S_dependencyFailedException)
    ELSE IF Contains(S_throttlingException, e.str)
    THEN show_error_popup(S_throttlingException)
    ELSE Raised(<<>>, e)

\* initialize_session without the test of line 16: a new identifier every run
initialize_session_new_id(ss, uuid) ==
    LET s1 == IF "client" \in DOMAIN ss THEN ss
              ELSE ss @@ ("client" :> "bedrock-agent-runtime/us-east-1")
        s2 == ("session_id" :> uuid) @@ s1
        s3 == IF "messages" \in DOMAIN s2 THEN s2 ELSE s2 @@ ("messages" :> <<>>)
    IN  IF "last_prompt" \in DOMAIN s3 THEN s3 ELSE s3 @@ ("last_prompt" :> None)

\* initialize_session without the test of line 21: an empty transcript every run
initialize_session_reset(ss, uuid) ==
    LET s1 == IF "client" \in DOMAIN ss THEN ss
              ELSE ss @@ ("client" :> "bedrock-agent-runtime/us-east-1")
        s2 == IF "session_id" \in DOMAIN s1 THEN s1 ELSE s1 @@ ("session_id" :> uuid)
        s3 == ("messages" :> <<>>) @@ s2
    IN  IF "last_prompt" \in DOMAIN s3 THEN s3 ELSE s3 @@ ("last_prompt" :> None)

\* lines 10-29; uuid is what uuid.uuid4() returns in this call
initialize_session(ss, uuid) ==
    LET s1 == IF "client" \in DOMAIN ss THEN ss
              ELSE ss @@ ("client" :> "bedrock-agent-runtime/us-east-1")
        s2 == IF "session_id" \in DOMAIN s1 THEN s1 ELSE s1 @@ ("session_id" :> uuid)
        s3 == IF "messages" \in DOMAIN s2 THEN s2 ELSE s2 @@ ("messages" :> <<>>)
    IN  IF "last_prompt" \in DOMAIN s3 THEN s3 ELSE s3 @@ ("last_prompt" :> None)

----------------------------------------------------------------------------
(* The raw events of the stream (the shapes invoke_agent returns) and the   *)
(* other inputs.                                                            *)

\* a prompt typed by the user: "RAG?"
PromptRag == <<82, 65, 71, 63>>
\* a prompt typed by the user: "hi"
PromptHi == <<104, 105>>
\* a model input that is not JSON: You are an agent
TxtPlain ==
    <<89, 111, 117, 32, 97, 114, 101, 32, 97, 110, 32, 97, 103, 101, 110, 116>>
\* a model input that is JSON: {"system": "be brief", "messages": []}
TxtJsonInput ==
    <<123, 34, 115, 121, 115, 116, 101, 109, 34, 58, 32, 34, 98, 101, 32, 98, 114, 105, 101, 102,
     34, 44, 32, 34, 109, 101, 115, 115, 97, 103, 101, 115, 34, 58, 32, 91, 93, 125>>
\* model output {"content":[{"text":"ok"}]}
TxtOutText ==
    <<123, 34, 99, 111, 110, 116, 101, 110, 116, 34, 58, 91, 123, 34, 116, 101, 120, 116, 34, 58,
     34, 111, 107, 34, 125, 93, 125>>
\* model output {"content":[{"text":""}]}
TxtOutEmptyText ==
    <<123, 34, 99, 111, 110, 116, 101, 110, 116, 34, 58, 91, 123, 34, 116, 101, 120, 116, 34, 58,
     34, 34, 125, 93, 125>>
\* model output {"content":[{"type":"tool_use"}]}: the first element has no "text"
TxtOutNoText ==
    <<123, 34, 99, 111, 110, 116, 101, 110, 116, 34, 58, 91, 123, 34, 116, 121, 112, 101, 34, 58,
     34, 116, 111, 111, 108, 95, 117, 115, 101, 34, 125, 93, 125>>
\* model output {"stop": "end"}: no "content"
TxtOutNoContent ==
    <<123, 34, 115, 116, 111, 112, 34, 58, 32, 34, 101, 110, 100, 34, 125>>
\* model output {"content":[]}: no first element
TxtOutEmptyContent == <<123, 34, 99, 111, 110, 116, 101, 110, 116, 34, 58, 91, 93, 125>>
\* model output "ok": JSON, but a string
TxtOutString == <<34, 111, 107, 34>>
\* model output {"content":[{"text":"ok"}: truncated, not JSON
TxtOutBroken ==
    <<123, 34, 99, 111, 110, 116, 101, 110, 116, 34, 58, 91, 123, 34, 116, 101, 120, 116, 34, 58,
     34, 111, 107, 34, 125>>
\* a rationale: Use tool X
TxtRationale == <<85, 115, 101, 32, 116, 111, 111, 108, 32, 88>>
\* an input text of a tool invocation: price?
TxtQuery == <<112, 114, 105, 99, 101, 63>>
\* an output text of a collaborator: 42 yen
TxtAnswer == <<52, 50, 32, 121, 101, 110>>
\* a collaborator name: billing
NameBilling == <<98, 105, 108, 108, 105, 110, 103>>
\* str(e): An error occurred (dependencyFailedException): db resuming
ErrDependency ==
    <<65, 110, 32, 101, 114, 114, 111, 114, 32, 111, 99, 99, 117, 114, 114, 101, 100, 32, 40, 100,
     101, 112, 101, 110, 100, 101, 110, 99, 121, 70, 97, 105, 108, 101, 100, 69, 120, 99, 101,
     112, 116, 105, 111, 110, 41, 58, 32, 100, 98, 32, 114, 101, 115, 117, 109, 105, 110, 103>>
\* str(e): An error occurred (throttlingException): slow down
ErrThrottling ==
    <<65, 110, 32, 101, 114, 114, 111, 114, 32, 111, 99, 99, 117, 114, 114, 101, 100, 32, 40, 116,
     104, 114, 111, 116, 116, 108, 105, 110, 103, 69, 120, 99, 101, 112, 116, 105, 111, 110, 41,
     58, 32, 115, 108, 111, 119, 32, 100, 111, 119, 110>>
\* str(e): An error occurred (dependencyFailedException): got throttlingException
ErrDependencyThrottled ==
    <<65, 110, 32, 101, 114, 114, 111, 114, 32, 111, 99, 99, 117, 114, 114, 101, 100, 32, 40, 100,
     101, 112, 101, 110, 100, 101, 110, 99, 121, 70, 97, 105, 108, 101, 100, 69, 120, 99, 101,
     112, 116, 105, 111, 110, 41, 58, 32, 103, 111, 116, 32, 116, 104, 114, 111, 116, 116, 108,
     105, 110, 103, 69, 120, 99, 101, 112, 116, 105, 111, 110>>
\* str(e): An error occurred (accessDeniedException): no
ErrAccessDenied ==
    <<65, 110, 32, 101, 114, 114, 111, 114, 32, 111, 99, 99, 117, 114, 114, 101, 100, 32, 40, 97,
     99, 99, 101, 115, 115, 68, 101, 110, 105, 101, 100, 69, 120, 99, 101, 112, 116, 105, 111,
     110, 41, 58, 32, 110, 111>>

\* the most script runs of main in one browser session
MaxRuns == 2

\* the most events the streams of one browser session yield
MaxEvents == 2

\* the values uuid.uuid4() may return
Uuids == {"0b5e", "f1b7"}

Prompts == {PromptRag, PromptHi}

\* st.chat_input returns None until the user submits a text, which is not empty
ChatInputs == {None} \cup {Str(p) : p \in Prompts}

\* str(e) of the errors the service sends
ErrorStrings == {ErrDependency, ErrThrottling, ErrDependencyThrottled, ErrAccessDenied}

\* chunk bytes: "Hi", e with an acute accent (C3 A9), and "H" followed by a
\* truncated character, which is not UTF-8
ChunkBytes == {<<72, 105>>, <<195, 169>>, <<72, 195>>}

ChunkEvent(b) == [chunk |-> [bytes |-> b]]

TraceEvent(orchestrationTrace) ==
    [trace |-> [trace |-> [orchestrationTrace |-> orchestrationTrace]]]

ModelInvocationInputs ==
    {EmptyDict} \cup {[modelInvocationInput |-> [text |-> t]] : t \in {TxtPlain, TxtJsonInput}}

ModelOutputTexts ==
    {TxtOutText, TxtOutEmptyText, TxtOutNoText, TxtOutNoContent, TxtOutEmptyContent,
     TxtOutString, TxtOutBroken}

ModelInvocationOutputs ==
    {EmptyDict}
    \cup {[modelInvocationOutput |-> [rawResponse |-> [content |-> t]]] : t \in ModelOutputTexts}

Rationales == {EmptyDict, [rationale |-> [text |-> TxtRationale]]}

InvocationInputs ==
    {EmptyDict} \cup {[invocationInput |-> i] : i \in
       {[invocationType |-> "AGENT_COLLABORATOR",
         agentCollaboratorInvocationInput |->
             [agentCollaboratorName |-> NameBilling, input |-> [text |-> TxtQuery]]],
        [invocationType |-> "AGENT_COLLABORATOR",
         agentCollaboratorInvocationInput |-> [input |-> [text |-> TxtQuery]]],
        [invocationType |-> "AGENT_COLLABORATOR"],
        [invocationType |-> "KNOWLEDGE_BASE", knowledgeBaseLookupInput |-> [text |-> TxtQuery]],
        [invocationType |-> "KNOWLEDGE_BASE"],
        [invocationType |-> "ACTION_GROUP",
         actionGroupInvocationInput |-> [function |-> "get_price"]],
        [invocationType |-> "ACTION_GROUP"],
        [invocationType |-> "ACTION_GROUP_CODE_INTERPRETER"]}}

References == <<[content |-> [text |-> TxtAnswer]]>>

Observations ==
    {EmptyDict} \cup {[observation |-> o] : o \in
       {[type |-> "KNOWLEDGE_BASE",
         knowledgeBaseLookupOutput |-> [retrievedReferences |-> References]],
        [type |-> "KNOWLEDGE_BASE", knowledgeBaseLookupOutput |-> [retrievedReferences |-> <<>>]],
        [type |-> "KNOWLEDGE_BASE"],
        [type |-> "AGENT_COLLABORATOR",
         agentCollaboratorInvocationOutput |->
             [agentCollaboratorName |-> NameBilling, output |-> [text |-> TxtAnswer]]],
        [type |-> "AGENT_COLLABORATOR",
         agentCollaboratorInvocationOutput |-> [output |-> [text |-> TxtAnswer]]],
        [type |-> "AGENT_COLLABORATOR",
         agentCollaboratorInvocationOutput |-> [agentCollaboratorName |-> NameBilling]],
        [type |-> "AGENT_COLLABORATOR",
         agentCollaboratorInvocationOutput |->
             [agentCollaboratorName |-> NameBilling, output |-> [text |-> <<>>]]],
        [type |-> "AGENT_COLLABORATOR"],
        [type |-> "FINISH", finalResponse |-> [text |-> TxtAnswer]]}}

\* every orchestration trace: any of the five sub-fields present or absent
OrchestrationTraces ==
    {a @@ b @@ c @@ d @@ e : a \in ModelInvocationInputs, b \in ModelInvocationOutputs,
                             c \in Rationales, d \in InvocationInputs, e \in Observations}

\* a trace of a kind the page does not show
OtherTraceEvent == [trace |-> [trace |-> [preProcessingTrace |-> EmptyDict]]]

\* an event that is neither a chunk nor a trace
OtherEvent == [returnControl |-> [invocationId |-> "1"]]

TraceEvents == {TraceEvent(t) : t \in OrchestrationTraces} \cup {OtherTraceEvent}

RationaleEvent == TraceEvent([rationale |-> [text |-> TxtRationale]])

\* a collaborator is invoked and the event does not name it
UnnamedCollaboratorEvent ==
    TraceEvent([invocationInput |->
        [invocationType |-> "AGENT_COLLABORATOR",
         agentCollaboratorInvocationInput |-> [input |-> [text |-> TxtQuery]]]])

\* an event with a trace and a chunk
TraceChunkEvent == RationaleEvent @@ ChunkEvent(<<72, 105>>)

\* the events a stream yields: answers, traces, an event of another kind
StreamEvents ==
    {ChunkEvent(b) : b \in ChunkBytes}
    \cup {RationaleEvent, OtherTraceEvent, OtherEvent, UnnamedCollaboratorEvent, TraceChunkEvent}

----------------------------------------------------------------------------
(* The script runs. *)

NotRun == [out |-> <<>>, exc |-> [cls |-> "NotRun"]]

Init ==
    /\ session_state = EmptyDict
    /\ pc = "idle"
    /\ prompt = None
    /\ screen = <<>>
    /\ outcome = [kind |-> "none", raised |-> NoExc, exc |-> NoExc]
    /\ gateway = <<>>
    /\ events = <<>>
    /\ runs = 0
    /\ pulled = 0
    /\ event = None
    /\ result = NotRun

messages == Get(session_state, "messages", <<>>)

\* line 172 left out: the prompt is not in the transcript at the invocation
append_prompt_skipped(msgs, text) == msgs

\* line 172
append_prompt(msgs, text) == Append(msgs, [role |-> "human", text |-> text])

\* the page with `out` added inside the container that was opened last
Inside(page, out) == [page EXCEPT ![Len(page)].children = @ \o out]

\* the end of a script run whose try block raised e, with `page` shown so far
Except(e, page) ==
    LET handled == main_except(e)
    IN  /\ screen' = page \o handled.out
        /\ pc' = "idle"
        /\ outcome' = [kind |-> IF handled.exc.cls = "None" THEN "returned" ELSE "raised",
                       raised |-> e, exc |-> handled.exc]

\* lines 166-182, to the first pull of the stream.  response is what
\* client.invoke_agent does: it returns the stream or raises a ClientError
main(chat_input, uuid, response) ==
    LET ss == initialize_session(session_state, uuid)
        page == display_chat_history(ss.messages)
        submitted == append_prompt(ss.messages, chat_input.v)
        bubble == ChatMessage("user", <<Element("markdown", chat_input.v)>>)
        call == invoke_bedrock_agent(ss.session_id, chat_input.v)
    IN  /\ pc = "idle"
        /\ runs < MaxRuns
        /\ runs' = runs + 1
        /\ prompt' = chat_input
        /\ events' = <<>>
        /\ UNCHANGED <<pulled, event, result>>
        /\ IF ~Truthy(chat_input)
           THEN /\ session_state' = ss
                /\ screen' = page
                /\ pc' = "idle"
                /\ outcome' = [kind |-> "returned", raised |-> NoExc, exc |-> NoExc]
                /\ UNCHANGED gateway
           ELSE /\ session_state' = [ss EXCEPT !["messages"] = submitted]
                /\ gateway' = Append(gateway, [args |-> call, transcript |-> submitted])
                /\ IF response.cls = "None"
                   THEN /\ screen' = page \o <<bubble, ChatMessage("assistant", <<>>)>>
                        /\ pc' = "streaming"
                        /\ outcome' = [kind |-> "running", raised |-> NoExc, exc |-> NoExc]
                   ELSE Except(response, page \o <<bubble>>)

\* the loop body has run on ev and did `done`
stream_step(ev, done) ==
    /\ pc = "streaming"
    /\ pulled < MaxEvents
    /\ pulled' = pulled + 1
    /\ events' = Append(events, ev)
    /\ session_state' = [session_state EXCEPT !["messages"] = done.messages]
    /\ IF done.exc.cls = "None"
       THEN /\ screen' = Inside(screen, done.out)
            /\ UNCHANGED <<pc, outcome>>
       ELSE Except(done.exc, Inside(screen, done.out))
    /\ UNCHANGED <<prompt, gateway, runs, event, result>>

\* lines 146-154: the stream yields ev and the loop body runs on it
stream_next(ev) == stream_step(ev, handle_event(ev, messages))

\* line 146: the stream is exhausted, the loop and main end
stream_end ==
    /\ pc = "streaming"
    /\ pc' = "idle"
    /\ outcome' = [kind |-> "returned", raised |-> NoExc, exc |-> NoExc]
    /\ UNCHANGED <<session_state, prompt, screen, gateway, events, runs, pulled, event, result>>

\* line 146: the stream yields an error event and the iterator raises
stream_error(str) ==
    /\ pc = "streaming"
    /\ Except(EventStreamError(str), screen)
    /\ UNCHANGED <<session_state, prompt, gateway, events, runs, pulled, event, result>>

Next ==
    \/ \E chat_input \in ChatInputs, uuid \in Uuids,
          response \in {NoExc} \cup {ClientError(s) : s \in ErrorStrings} :
           main(chat_input, uuid, response)
    \/ \E ev \in StreamEvents : stream_next(ev)
    \/ stream_end
    \/ \E s \in ErrorStrings : stream_error(s)

Spec == Init /\ [][Next]_vars

(* handle_trace_event on its own, on every trace event. *)
InitTrace ==
    /\ session_state = EmptyDict
    /\ pc = "idle"
    /\ prompt = None
    /\ screen = <<>>
    /\ outcome = [kind |-> "none", raised |-> NoExc, exc |-> NoExc]
    /\ gateway = <<>>
    /\ events = <<>>
    /\ runs = 0
    /\ pulled = 0
    /\ event \in TraceEvents
    /\ result = NotRun

render ==
    /\ result = NotRun
    /\ result' = handle_trace_event(event)
    /\ UNCHANGED <<session_state, pc, prompt, screen, outcome, gateway, events, runs, pulled,
                   event>>

NextTrace == render

SpecTrace == InitTrace /\ [][NextTrace]_vars

----------------------------------------------------------------------------
(* What the properties speak of. *)

IsPrefix(s, t) == Len(s) <= Len(t) /\ SubSeq(t, 1, Len(s)) = s

\* the current (or last) script run submitted a prompt
Submitted == Truthy(prompt)

\* the transcript when the agent was invoked in this script run
AtInvoke == gateway[Len(gateway)].transcript

\* the transcript entries appended since then
Since == SubSeq(messages, Len(AtInvoke) + 1, Len(messages))

IsChunk(ev) == "chunk" \in DOMAIN ev

\* the loop body raised on the last event the stream yielded
RaisedInLoop == outcome.raised.cls \in {"KeyError", "UnicodeDecodeError"}

\* the events of the stream that the loop body has run on to its end
Consumed == IF RaisedInLoop THEN SubSeq(events, 1, Len(events) - 1) ELSE events

\* one Assistant entry for each answer chunk of evs, in the order of evs
Answers(evs) ==
    LET chunks == SelectSeq(evs, IsChunk)
    IN  [i \in 1..Len(chunks) |->
            [role |-> "assistant", text |-> decode(chunks[i].chunk.bytes).text]]

\* the stream was consumed to its end
Drained == pc = "idle" /\ Submitted /\ outcome.kind = "returned" /\ outcome.raised.cls = "None"

\* the assistant's chat message of this script run: what the stream put on the page
AssistantMessage == screen[Len(screen)].children

\* C1: while a stream is consumed, and when it has been drained, the entries
\* appended to the transcript since the invocation are exactly one Assistant
\* entry per answer chunk the loop has run on, in stream order, each with that
\* chunk's decoded text; the other events append nothing.
C1_OneAssistantEntryPerChunk == Submitted => Since = Answers(Consumed)

\* a drained stream of two different answer chunks, both in the transcript
C1_Witness ==
    /\ Drained
    /\ Len(events) = 2
    /\ IsChunk(events[1]) /\ IsChunk(events[2])
    /\ events[1] # events[2]
    /\ Len(Since) = 2

\* C2: a submit appends exactly one User entry (role "human" in the source)
\* with the prompt as its text before the agent is invoked: it is the last
\* entry of the transcript at the invocation, every entry appended later in
\* the script run is an Assistant entry, the entry stays whether the
\* invocation succeeds or fails, and the transcript has as many User entries
\* as there were invocations.
C2_UserEntryBeforeInvocation ==
    /\ Cardinality({i \in 1..Len(messages) : messages[i].role = "human"}) = Len(gateway)
    /\ Submitted =>
        /\ gateway[Len(gateway)].args.inputText = prompt.v
        /\ Len(AtInvoke) > 0
        /\ AtInvoke[Len(AtInvoke)] = [role |-> "human", text |-> prompt.v]
        /\ IsPrefix(AtInvoke, messages)
        /\ \A i \in 1..Len(Since) : Since[i].role = "assistant"

\* a second submit whose invocation failed, after a first one that was answered
C2_Witness ==
    /\ Submitted
    /\ Len(gateway) = 2
    /\ outcome.raised.cls = "ClientError"
    /\ messages[Len(messages)] = [role |-> "human", text |-> prompt.v]
    /\ \E i \in 1..Len(messages) : messages[i].role = "assistant"

\* the try block of the script run raised one of botocore's two errors
TransportError == outcome.raised.cls \in {"ClientError", "EventStreamError"}

NamesDependency == Contains(S_dependencyFailedException, outcome.raised.str)

NamesThrottling == Contains(S_throttlingException, outcome.raised.str)

\* main returned after showing the guidance `message`
Guidance(message) ==
    outcome.kind = "returned" /\ screen[Len(screen)] = Element("error", message)

\* main raised the error it caught, and showed no message
Propagated ==
    /\ outcome.kind = "raised"
    /\ outcome.exc = outcome.raised
    /\ \A i \in 1..Len(screen) : screen[i].el # "error"

\* C3 as stated: an error whose string contains "dependencyFailedException"
\* is DependencyFailed, one whose string contains "throttlingException" is
\* Throttled, any other propagates unchanged.
C3_ClassifiedByToken ==
    TransportError =>
        /\ NamesDependency => Guidance(S_err_dependency)
        /\ NamesThrottling => Guidance(S_err_throttling)
        /\ ~NamesDependency /\ ~NamesThrottling => Propagated

\* C3 amended: "dependencyFailedException" is looked for first, so an error
\* whose string contains "throttlingException" is Throttled only when it does
\* not contain "dependencyFailedException" too.
C3_ClassifiedByFirstToken ==
    TransportError =>
        /\ NamesDependency => Guidance(S_err_dependency)
        /\ NamesThrottling /\ ~NamesDependency => Guidance(S_err_throttling)
        /\ ~NamesDependency /\ ~NamesThrottling => Propagated

\* the stream raised an error whose string contains both tokens
C3_Witness ==
    /\ outcome.raised.cls = "EventStreamError"
    /\ NamesDependency /\ NamesThrottling
    /\ Guidance(S_err_dependency)

\* handle_trace_event has run on `event`
Rendered == result.exc.cls # "NotRun"

\* the orchestration trace of `event`, empty when it has none
Orchestration == Get(event.trace.trace, "orchestrationTrace", EmptyDict)

SubFields ==
    <<"modelInvocationInput", "modelInvocationOutput", "rationale", "invocationInput",
      "observation">>

TraceKinds == <<"ModelInput", "ModelOutput", "Rationale", "ToolInvocation", "Observation">>

EndsWith(s, tail) == Len(tail) <= Len(s) /\ SubSeq(s, Len(s) - Len(tail) + 1, Len(s)) = tail

\* the place in TraceKinds of the kind of unit an expander is, by its label
KindOf(unit) ==
    IF unit.label = S_thinking THEN 1
    ELSE IF unit.label = S_thought_done THEN 2
    ELSE IF unit.label = S_action_decided THEN 3
    ELSE IF unit.label \in {S_kb_search_title, S_lambda_title}
            \/ EndsWith(unit.label, S_sub_invoke_post) THEN 4
    ELSE IF unit.label = S_kb_result_title \/ EndsWith(unit.label, S_sub_result_post) THEN 5
    ELSE 0

Kinds(units) == [i \in 1..Len(units) |-> KindOf(units[i])]

\* sub-field n is present and, for a tool invocation or an observation, of a
\* type the page shows
Shown(n) ==
    /\ SubFields[n] \in DOMAIN Orchestration
    /\ n = 4 => Orchestration.invocationInput.invocationType
                   \in {"AGENT_COLLABORATOR", "KNOWLEDGE_BASE", "ACTION_GROUP"}
    /\ n = 5 => Orchestration.observation.type \in {"KNOWLEDGE_BASE", "AGENT_COLLABORATOR"}

RECURSIVE ShownFrom(_)
ShownFrom(n) ==
    IF n > 5 THEN <<>> ELSE (IF Shown(n) THEN <<n>> ELSE <<>>) \o ShownFrom(n + 1)

\* C4 as stated, for the events handle_trace_event returns on: N sub-fields
\* present give exactly N units, in the fixed order.
C4_OneUnitPerSubField ==
    Rendered /\ result.exc.cls = "None" =>
        /\ Len(result.out) = Cardinality({n \in 1..5 : SubFields[n] \in DOMAIN Orchestration})
        /\ \A i, j \in 1..Len(result.out) : i < j => KindOf(result.out[i]) < KindOf(result.out[j])

\* C4 amended: one unit for each present sub-field, in the fixed order, but
\* none for an invocationInput whose invocationType is not AGENT_COLLABORATOR,
\* KNOWLEDGE_BASE or ACTION_GROUP and none for an observation whose type is
\* not KNOWLEDGE_BASE or AGENT_COLLABORATOR; where rendering raises, the units
\* yielded up to there are the leading ones of that sequence.
C4_OneUnitPerShownSubField ==
    Rendered =>
        /\ IsPrefix(Kinds(result.out), ShownFrom(1))
        /\ result.exc.cls = "None" => Kinds(result.out) = ShownFrom(1)

\* all five sub-fields present, one of a type the page does not show: 4 units
C4_Witness ==
    /\ Rendered
    /\ result.exc.cls = "None"
    /\ \A n \in 1..5 : SubFields[n] \in DOMAIN Orchestration
    /\ Len(result.out) = 4

\* what C5 has the consumer put on the page for one event: the answer of an
\* event with a chunk and nothing else, the trace of an event without one
Classified(ev) ==
    IF "chunk" \in DOMAIN ev THEN <<Element("write", decode(ev.chunk.bytes).text)>>
    ELSE IF "trace" \in DOMAIN ev THEN handle_trace_event(ev).out
    ELSE <<>>

RECURSIVE ClassifiedAll(_)
ClassifiedAll(evs) ==
    IF Len(evs) = 0 THEN <<>> ELSE Classified(Head(evs)) \o ClassifiedAll(Tail(evs))

\* C5: every event is one variant, the first that matches: the page shows the
\* answer of an event that has a chunk and not its trace, the trace of an
\* event without a chunk, nothing of an event with neither.
C5_FirstMatchWins ==
    Submitted /\ outcome.kind \in {"running", "returned"} /\ outcome.raised.cls = "None"
        => AssistantMessage = ClassifiedAll(events)

\* C6: rendering a trace event of the documented shape raises nothing, whatever
\* optional fields it lacks, and the stream is consumed on.
C6_TraceRenderingNeverRaises == outcome.raised.cls # "KeyError"

\* a chunk whose bytes are not UTF-8, in an event whose trace (if any) renders
Undecodable(ev) ==
    /\ IsChunk(ev)
    /\ ~decode(ev.chunk.bytes).ok
    /\ "trace" \in DOMAIN ev => handle_trace_event(ev).exc.cls = "None"

Writes(page) == SelectSeq(page, LAMBDA el : el.el = "write")

\* C7: an answer chunk that is not UTF-8 ends the script run with the
\* UnicodeDecodeError raised to the caller; it is the last event taken from the
\* stream, no entry is appended and nothing is written for it.
C7_DecodeFailureIsFatal ==
    \A i \in 1..Len(events) :
        Undecodable(events[i]) =>
            /\ i = Len(events)
            /\ pc = "idle"
            /\ outcome.kind = "raised"
            /\ outcome.exc = UnicodeDecodeError
            /\ Since = Answers(SubSeq(events, 1, i - 1))
            /\ Len(Writes(AssistantMessage)) = Len(Since)

\* an answer, then a chunk that is not UTF-8
C7_Witness ==
    /\ Len(events) = 2
    /\ IsChunk(events[1]) /\ decode(events[1].chunk.bytes).ok
    /\ Undecodable(events[2])
    /\ Len(Since) = 1

\* C8: once set, the session identifier never changes, and every invocation of
\* the agent has passed it.
C8_SessionIdNeverChanges ==
    /\ [](\A i \in 1..Len(gateway) : gateway[i].args.sessionId = session_state.session_id)
    /\ [][("session_id" \in DOMAIN session_state)
            => session_state'.session_id = session_state.session_id]_vars

\* two invocations in one session, the second one failed
C8_Witness ==
    /\ Len(gateway) = 2
    /\ outcome.raised.cls = "ClientError"
    /\ gateway[1].args.sessionId = gateway[2].args.sessionId

\* C9: every step leaves the transcript as it was or appends to it.
C9_TranscriptAppendOnly == [][IsPrefix(messages, messages')]_vars

\* a submit that was answered, then one that failed part-way through its stream
C9_Witness ==
    /\ runs = 2
    /\ Len(gateway) = 2
    /\ Len(AtInvoke) >= 3
    /\ AtInvoke[Len(AtInvoke) - 1].role = "assistant"
    /\ outcome.raised.cls = "UnicodeDecodeError"
    /\ messages = AtInvoke

\* the content of the model output of `event` and what json.loads makes of it
OutputContent == Orchestration.modelInvocationOutput.rawResponse.content

\* the first element of "content" of a parsed model output that has one with
\* a "text"
HasFirstText(parsed) ==
    /\ parsed.ok
    /\ parsed.val.k = "dict"
    /\ K_content \in DOMAIN parsed.val.v
    /\ parsed.val.v[K_content].k = "list"
    /\ Len(parsed.val.v[K_content].v) > 0
    /\ parsed.val.v[K_content].v[1].k = "dict"
    /\ K_text \in DOMAIN parsed.val.v[K_content].v[1].v

FirstElement(parsed) == parsed.val.v[K_content].v[1]

ThoughtUnits == SelectSeq(result.out, LAMBDA unit : unit.label = S_thought_done)

\* C10: a model output is rendered as exactly one unit, whose body is the text
\* of the first content element when that text is not empty, the first content
\* element itself when its text is empty, and the raw payload when the payload
\* cannot be parsed (or has no first content element with a text).
C10_ModelOutputBody ==
    Rendered /\ "modelInvocationOutput" \in DOMAIN Orchestration =>
        LET parsed == json_loads(OutputContent)
        IN  /\ Len(ThoughtUnits) = 1
            /\ Len(ThoughtUnits[1].children) = 1
            /\ ThoughtUnits[1].children[1].el = "write"
            /\ ThoughtUnits[1].children[1].body =
                  IF ~HasFirstText(parsed) THEN OutputContent
                  ELSE IF FirstElement(parsed).v[K_text].v # <<>>
                  THEN FirstElement(parsed).v[K_text].v
                  ELSE FirstElement(parsed)

\* a model output whose first content element has an empty text
C10_Witness ==
    /\ Rendered
    /\ "modelInvocationOutput" \in DOMAIN Orchestration
    /\ HasFirstText(json_loads(OutputContent))
    /\ ThoughtUnits[1].children[1].body = FirstElement(json_loads(OutputContent))

====
